---- MODULE Spec2Model ----
(***************************************************************************)
(* Model of the movie-image backfill job                                   *)
(* (movies-quiz/data/refetch_movies_with_images.py): the resumable,        *)
(* rate-limited loop of main(), the checkpoint written by save_progress()  *)
(* and read by load_remaining(), the classification of a fetch by          *)
(* fetch_imdb_details(), and the interruption of the process.              *)
(*                                                                         *)
(* A candidate (a movie dict {imdb_id, title}) is named by its position in *)
(* the list get_movies_missing_images() returned for the run that began    *)
(* the current chain of runs, so a loaded list has no duplicates.          *)
(***************************************************************************)
EXTENDS Integers, Sequences, FiniteSets, TLC

\* ---------------------------------------------------------------- bounds
\* Longest list the Source Loader returns.
MaxCandidates == 4

\* BATCH_SIZE, "save progress every N movies".  The source sets 10 (line 60);
\* the loop reads it only in len(processed) % BATCH_SIZE == 0, and the model
\* scales it so that batch boundaries fall inside lists of MaxCandidates
\* movies: with 2, lists of 2, 3 and 4 movies meet a boundary with a
\* non-empty rest, a boundary with an empty rest, and two boundaries.
BATCH_SIZE == 2

Candidates == 1..MaxCandidates

\* ----------------------------------------------------------------- state
VARIABLES
    pc,          \* position of the process: "idle" (no process), "loop" (head of
                 \* the for loop, line 332), "save_progress" (line 263),
                 \* "save_remaining" (line 270)
    exit,        \* how the last process ended ("none" before the first one)
    remaining,   \* main's list `remaining`
    processed,   \* main's list `processed`
    failed,      \* main's list `failed`
    todo,        \* the copy remaining[:] the for loop iterates over
    idx,         \* number of iterations of the for loop begun so far
    returnTo,    \* what follows the running save_progress call:
                 \* "sleep" (line 395), "return" (line 346), "final" (line 401)
    waited,      \* time.sleep(delay) ran since the last fetch call
    fetchCount,  \* fetch_imdb_details calls of this process
    savesSinceFetch, \* save_progress calls completed since the last fetch call
    progFile,    \* PROGRESS_FILE on disk
    remFile,     \* REMAINING_FILE on disk
    sink,        \* candidates whose PATCH requests were issued (this chain)
    provider,    \* what the IMDb API answers for a candidate, once it has
                 \* answered other than 429: "unknown" | "ok" | "none"
    orig,        \* the list the Source Loader returned for this chain of runs
    resumed,     \* this process took its list from REMAINING_FILE
    chainClean,  \* no process of this chain was interrupted or died
    diskBefore,  \* <<PROGRESS_FILE, REMAINING_FILE>> as they were when the
                 \* running save_progress call began
    configLoaded, \* the process started last found its Supabase config, its
                 \* RapidAPI key and its service key
    result       \* main's `result`: what supabase_request returned for the
                 \* PATCH requests of the last iteration that made them
                 \* ("unset" before the first)

\* The rankings update job (tennis-quiz/data/update_rankings.py).
VARIABLES
    rpc,            \* position of update_rankings' main: "off" (the job is not
                    \* part of the behaviour), "start", "loop" (line 259),
                    \* "output" (line 301), "done", "raised"
    manual_players, \* the players of manual_stats.json
    api_rankings,   \* the dict fetch_atp_rankings returned, in listing order
    merged_players, \* main's list `merged_players`
    nextPlayer,     \* number of players the for loop of line 259 has handled
    matchCalls,     \* calls of match_player_name so far
    lastMatch,      \* what the last call of match_player_name did
    outputFile      \* the players written to OUTPUT_FILE (<<>> before that)

\* A second invocation of the backfill job, started while the first one runs
\* in the same directory.
VARIABLES
    pc2,         \* its position: "none" (not started), "loop", "ended"
    remaining2,  \* its list `remaining`
    processed2,  \* its list `processed`
    fetchCount2, \* its fetch_imdb_details calls
    wrote2       \* its save_progress calls

\* The music import job (music/data/import_music.py).
VARIABLES
    mpc,           \* position of import_music's main: "off" (the job is not part
                   \* of the behaviour), "start", "queue" (head of the loop of
                   \* line 326), "request" (inside an api_request call),
                   \* "done", "raised"
    queue,         \* the import queue; an entry tells whether its song name is
                   \* in the existing database
    qpos,          \* entries of the queue the loop has taken
    stage,         \* the request process_song is making: "search", "artist",
                   \* "album" ("none" outside process_song)
    depth,         \* api_request frames below the one process_song called
    track,         \* the track search_track returned for the current entry
    new_songs,     \* main's list `new_songs` (the release year and decade)
    skipped,       \* len(skipped)
    failedQueries, \* len(failed)
    requests_used, \* main's `requests_used`
    songsFile,     \* OUTPUT_FILE on disk
    raised         \* the exception that ended main ("none" when none did)

secondVars == <<pc2, remaining2, processed2, fetchCount2, wrote2>>

musicVars == <<mpc, queue, qpos, stage, depth, track, new_songs, skipped,
               failedQueries, requests_used, songsFile, raised>>

backfillVars ==
    <<pc, exit, remaining, processed, failed, todo, idx, returnTo, waited,
      fetchCount, savesSinceFetch, progFile, remFile, sink, provider,
      orig, resumed, chainClean, diskBefore, configLoaded, result>>

rankVars == <<rpc, manual_players, api_rankings, merged_players, nextPlayer,
              matchCalls, lastMatch, outputFile>>

vars == <<backfillVars, secondVars, rankVars, musicVars>>

\* ------------------------------------------------------------- helpers
Range(s) == {s[k] : k \in 1..Len(s)}

\* list.remove(x): drops the first element equal to x.
Remove(s, x) ==
    LET first == CHOOSE k \in 1..Len(s) :
                    s[k] = x /\ \A j \in 1..(k - 1) : s[j] # x
    IN  SubSeq(s, 1, first - 1) \o SubSeq(s, first + 1, Len(s))

\* A file on disk: absent, unreadable as JSON, or holding a value.
NoFile == [state |-> "absent", data |-> <<>>]
CorruptFile == [state |-> "corrupt", data |-> <<>>]
FileOf(d) == [state |-> "ok", data |-> d]

\* The list get_movies_missing_images() returns: n movies, or [] when the
\* request failed or every movie has its image.
SourceList(n) == [k \in 1..n |-> k]

NoAnswer == [c \in Candidates |-> "unknown"]

\* ------------------------------------------------------- save_progress
\* json.dump of the counts into PROGRESS_FILE (lines 263-268; the timestamp
\* is left out).
ProgressRecord(proc, rem) ==
    <<Len(proc), Len(rem)>>

\* Mutant of RemainingWrite: the list is saved without its first movie, the
\* one whose fetch was throttled.
RemainingWrite_DropCurrent(file, rem) ==
    IF rem # <<>> THEN FileOf(Tail(rem)) ELSE file

\* Lines 270-272: REMAINING_FILE is written only for a non-empty list.
RemainingWrite(file, rem) ==
    IF rem # <<>> THEN FileOf(rem) ELSE file

\* Mutant of CleanUp: the file is never removed.
CleanUp_Skip(file, rem) == file

\* Lines 400-402: the clean-up after the final save.
CleanUp(file, rem) ==
    IF rem = <<>> /\ file.state # "absent" THEN NoFile ELSE file

\* ------------------------------------------------------- load_remaining
\* Lines 277-280: None without a file, the parsed list otherwise; json.load
\* raises on a file that is not JSON.
\* Mutant of load_remaining: the file is not looked at.
load_remaining_Ignore(file) == <<>>

LoadRaises(file) == file.state = "corrupt"
load_remaining(file) == IF file.state = "ok" THEN file.data ELSE <<>>

\* ----------------------------------------------------------------- Init
\* No call of match_player_name yet.
NoMatchCall ==
    [kind |-> "no_call", index |-> 0, rule |-> "no_rule", name |-> ""]

\* The rankings update job takes no part in the behaviour.
RankOff ==
    /\ rpc = "off"
    /\ manual_players = <<>>
    /\ api_rankings = <<>>
    /\ merged_players = <<>>
    /\ nextPlayer = 0
    /\ matchCalls = 0
    /\ lastMatch = NoMatchCall
    /\ outputFile = [state |-> "absent", data |-> {}]

\* No track yet.
NoTrack == [artist |-> FALSE, album |-> FALSE]

\* The music import job takes no part in the behaviour.
MusicOff ==
    /\ mpc = "off"
    /\ queue = <<>>
    /\ qpos = 0
    /\ stage = "none"
    /\ depth = 0
    /\ track = NoTrack
    /\ new_songs = <<>>
    /\ skipped = 0
    /\ failedQueries = 0
    /\ requests_used = 0
    /\ songsFile = NoFile
    /\ raised = "none"

\* No second invocation.
SecondOff ==
    /\ pc2 = "none"
    /\ remaining2 = <<>>
    /\ processed2 = <<>>
    /\ fetchCount2 = 0
    /\ wrote2 = 0

\* The backfill job before its first run: no process, no file on disk.
BackfillInit ==
    /\ pc = "idle"
    /\ exit = "none"
    /\ remaining = <<>>
    /\ processed = <<>>
    /\ failed = <<>>
    /\ todo = <<>>
    /\ idx = 0
    /\ returnTo = "none"
    /\ waited = FALSE
    /\ fetchCount = 0
    /\ savesSinceFetch = 0
    /\ progFile = NoFile
    /\ remFile = NoFile
    /\ sink = {}
    /\ provider = NoAnswer
    /\ orig = <<>>
    /\ resumed = FALSE
    /\ chainClean = TRUE
    /\ diskBefore = <<NoFile, NoFile>>
    /\ configLoaded = FALSE
    /\ result = "unset"

Init == BackfillInit /\ SecondOff /\ RankOff /\ MusicOff

\* Mutant of main_start: the keys are not checked before the work begins.
main_start_NoConfigCheck(cfg, n) ==
    LET loaded == load_remaining(remFile)
        fresh  == loaded = <<>>
        list   == IF fresh THEN SourceList(n) ELSE loaded
    IN
    /\ pc' = "loop"
    /\ exit' = "running"
    /\ remaining' = list
    /\ processed' = <<>>
    /\ failed' = <<>>
    /\ todo' = list
    /\ idx' = 0
    /\ returnTo' = "none"
    /\ waited' = FALSE
    /\ fetchCount' = 0
    /\ savesSinceFetch' = 0
    /\ resumed' = ~fresh
    /\ UNCHANGED <<sink, provider, orig, chainClean>>

\* ----------------------------------------------------- main, lines 289-330
\* cfg: load_supabase_config, load_api_key and load_service_key all found
\* their values.  n: the length of the list the Source Loader would return.
main_start(cfg, n) ==
    LET loaded == load_remaining(remFile)
        fresh  == loaded = <<>>
        list   == IF fresh THEN SourceList(n) ELSE loaded
    IN
    IF ~cfg THEN
        /\ exit' = "config_missing"
        /\ UNCHANGED <<pc, remaining, processed, failed, todo, idx, returnTo,
                       waited, fetchCount, savesSinceFetch, sink, provider,
                       orig, resumed, chainClean>>
    ELSE IF LoadRaises(remFile) THEN
        /\ exit' = "error"
        /\ UNCHANGED <<pc, remaining, processed, failed, todo, idx, returnTo,
                       waited, fetchCount, savesSinceFetch, sink, provider,
                       orig, resumed, chainClean>>
    ELSE IF list = <<>> THEN
        /\ exit' = "nothing_to_do"
        /\ UNCHANGED <<pc, remaining, processed, failed, todo, idx, returnTo,
                       waited, fetchCount, savesSinceFetch, sink, provider,
                       orig, resumed, chainClean>>
    ELSE
        /\ pc' = "loop"
        /\ exit' = "running"
        /\ remaining' = list
        /\ processed' = <<>>
        /\ failed' = <<>>
        /\ todo' = list
        /\ idx' = 0
        /\ returnTo' = "none"
        /\ waited' = FALSE
        /\ fetchCount' = 0
        /\ savesSinceFetch' = 0
        /\ resumed' = ~fresh
        /\ IF fresh
           THEN /\ sink' = {}
                /\ provider' = NoAnswer
                /\ orig' = list
                /\ chainClean' = TRUE
           ELSE UNCHANGED <<sink, provider, orig, chainClean>>

Start ==
    /\ pc = "idle"
    /\ \E cfg \in BOOLEAN, n \in 0..MaxCandidates :
          /\ configLoaded' = cfg
          /\ main_start(cfg, n)
          /\ result' = IF pc' = "loop" THEN "unset" ELSE result
    /\ UNCHANGED <<progFile, remFile, diskBefore, secondVars, rankVars, musicVars>>

\* ------------------------------------------ fetch_imdb_details, lines 164-191
\* "RATE_LIMITED" on HTTP 429; None ("none") on a curl error, a status >= 400,
\* a timeout, an empty or undecodable body; the decoded body ("ok") otherwise.
\* The provider's answer for a movie is fixed once given; a 429 is the
\* provider's state, not the movie's.
fetch_imdb_details(movie) ==
    {"RATE_LIMITED"} \cup
        (IF provider[movie] = "unknown" THEN {"ok", "none"} ELSE {provider[movie]})

\* ------------------------------------------- supabase_request, lines 121-154
\* What the PATCH requests of lines 359-379 leave in `result` for a movie
\* whose fetch gave raw_data: the decoded answer ("ok"), or None ("none") on a
\* curl error, a timeout or an answer that is not JSON.  After a failed fetch
\* no request is made and `result` keeps the value before.
supabase_request(raw_data, before) ==
    IF raw_data = "ok" THEN {"ok", "none"} ELSE {before}

\* Mutants of loop_body.
\* A processed movie is not appended to processed.
loop_body_DropProcessed(st, movie, raw_data) ==
    IF raw_data = "none" THEN
        [st EXCEPT !.failed = Append(@, movie),
                   !.remaining = Remove(@, movie)]
    ELSE
        [st EXCEPT !.sink = @ \cup {movie},
                   !.remaining = Remove(@, movie)]

\* A processed movie stays in remaining.
loop_body_KeepProcessed(st, movie, raw_data) ==
    IF raw_data = "none" THEN
        [st EXCEPT !.failed = Append(@, movie),
                   !.remaining = Remove(@, movie)]
    ELSE
        [st EXCEPT !.sink = @ \cup {movie},
                   !.processed = Append(@, movie)]

\* A failed movie stays in remaining.
loop_body_KeepFailed(st, movie, raw_data) ==
    IF raw_data = "none" THEN
        [st EXCEPT !.failed = Append(@, movie)]
    ELSE
        [st EXCEPT !.sink = @ \cup {movie},
                   !.processed = Append(@, movie),
                   !.remaining = Remove(@, movie)]

\* A failed movie is appended to processed as well.
loop_body_FailedAlsoProcessed(st, movie, raw_data) ==
    IF raw_data = "none" THEN
        [st EXCEPT !.failed = Append(@, movie),
                   !.processed = Append(@, movie),
                   !.remaining = Remove(@, movie)]
    ELSE
        [st EXCEPT !.sink = @ \cup {movie},
                   !.processed = Append(@, movie),
                   !.remaining = Remove(@, movie)]

\* --------------------------------------------- the loop body, lines 348-382
\* The lists and the sink after one iteration whose fetch was not throttled.
loop_body(st, movie, raw_data) ==
    IF raw_data = "none" THEN
        [st EXCEPT !.failed = Append(@, movie),
                   !.remaining = Remove(@, movie)]
    ELSE
        [st EXCEPT !.sink = @ \cup {movie},
                   !.processed = Append(@, movie),
                   !.remaining = Remove(@, movie)]

\* Mutant of SaveDue: the save comes one movie late.
SaveDue_OneLate(proc) == Len(proc) % BATCH_SIZE = 1

\* Line 391: the periodic save is due.
SaveDue(proc) == Len(proc) % BATCH_SIZE = 0

\* Lines 348-351 end in `continue`: no time.sleep after a failed fetch.
SleepsAfter(raw_data) == raw_data # "none"

\* One iteration of the for loop, lines 332-395, up to its save_progress call.
Iterate ==
    /\ pc = "loop"
    /\ idx < Len(todo)
    /\ LET movie == todo[idx + 1] IN
       \E raw_data \in fetch_imdb_details(movie) :
          /\ fetchCount' = fetchCount + 1
          /\ savesSinceFetch' = 0
          /\ idx' = idx + 1
          /\ IF raw_data = "RATE_LIMITED" THEN
                /\ pc' = "save_progress"
                /\ returnTo' = "return"
                /\ waited' = FALSE
                /\ diskBefore' = <<progFile, remFile>>
                /\ UNCHANGED <<remaining, processed, failed, sink, provider,
                               result>>
             ELSE
                LET st == loop_body([processed |-> processed, failed |-> failed,
                                     remaining |-> remaining, sink |-> sink],
                                    movie, raw_data)
                IN  /\ processed' = st.processed
                    /\ failed' = st.failed
                    /\ remaining' = st.remaining
                    /\ sink' = st.sink
                    /\ result' \in supabase_request(raw_data, result)
                    /\ provider' = [provider EXCEPT ![movie] = raw_data]
                    /\ IF raw_data = "ok" /\ SaveDue(st.processed)
                       THEN /\ pc' = "save_progress"
                            /\ returnTo' = "sleep"
                            /\ waited' = FALSE
                            /\ diskBefore' = <<progFile, remFile>>
                       ELSE /\ pc' = "loop"
                            /\ waited' = SleepsAfter(raw_data)
                            /\ UNCHANGED <<returnTo, diskBefore>>
    /\ UNCHANGED <<exit, todo, progFile, remFile, orig, resumed, chainClean,
                   configLoaded, secondVars, rankVars, musicVars>>

\* The loop is over: the final save, line 398.
LoopEnd ==
    /\ pc = "loop"
    /\ idx = Len(todo)
    /\ pc' = "save_progress"
    /\ returnTo' = "final"
    /\ diskBefore' = <<progFile, remFile>>
    /\ UNCHANGED <<exit, remaining, processed, failed, todo, idx, waited,
                   fetchCount, savesSinceFetch, progFile, remFile, sink,
                   provider, orig, resumed, chainClean,
                   configLoaded, result, secondVars, rankVars, musicVars>>

\* save_progress, lines 263-268: PROGRESS_FILE is written.
SaveProgressFile ==
    /\ pc = "save_progress"
    /\ progFile' = FileOf(ProgressRecord(processed, remaining))
    /\ pc' = "save_remaining"
    /\ UNCHANGED <<exit, remaining, processed, failed, todo, idx, returnTo,
                   waited, fetchCount, savesSinceFetch, remFile, sink,
                   provider, orig, resumed, chainClean, diskBefore,
                   configLoaded, result, secondVars, rankVars, musicVars>>

\* Mutant of ResumeAt: after the save on a throttled fetch main goes back to
\* the loop instead of returning.
ResumeAt_Retry(rt) == IF rt \in {"sleep", "return"} THEN "loop" ELSE "idle"

\* Where main goes when save_progress returns: back to the loop after the
\* sleep of line 395; out of main by the `return` of line 346 or after the
\* summary of lines 404-415.
ResumeAt(rt) == IF rt = "sleep" THEN "loop" ELSE "idle"

\* save_progress, lines 270-273, and what main does when it returns: the
\* sleep of line 395, the return of line 346, or the clean-up of lines 400-402
\* and the end of main.
SaveRemainingFile ==
    /\ pc = "save_remaining"
    /\ savesSinceFetch' = savesSinceFetch + 1
    /\ pc' = ResumeAt(returnTo)
    /\ LET written == RemainingWrite(remFile, remaining) IN
       remFile' = IF returnTo = "final" THEN CleanUp(written, remaining)
                                       ELSE written
    /\ waited' = IF returnTo = "sleep" THEN TRUE ELSE waited
    /\ exit' = CASE returnTo = "return" -> "throttled"
                 [] returnTo = "final"  -> "completed"
                 [] OTHER               -> exit
    /\ UNCHANGED <<remaining, processed, failed, todo, idx, returnTo,
                   fetchCount, progFile, sink, provider, orig, resumed,
                   chainClean, diskBefore,
                   configLoaded, result, secondVars, rankVars, musicVars>>

\* ------------------------------------------------------------ interruption
\* The process is killed (KeyboardInterrupt, SIGKILL, power loss) outside a
\* file write: main installs no handler, nothing is saved.
Interrupt ==
    /\ pc # "idle"
    /\ pc' = "idle"
    /\ exit' = "interrupted"
    /\ chainClean' = FALSE
    /\ UNCHANGED <<remaining, processed, failed, todo, idx, returnTo, waited,
                   fetchCount, savesSinceFetch, progFile, remFile, sink,
                   provider, orig, resumed, diskBefore,
                   configLoaded, result, secondVars, rankVars, musicVars>>

\* The process is killed inside `with open(PROGRESS_FILE, 'w')`: open()
\* truncated the file and json.dump had not finished.
CrashWritingProgress ==
    /\ pc = "save_progress"
    /\ progFile' = CorruptFile
    /\ pc' = "idle"
    /\ exit' = "interrupted"
    /\ chainClean' = FALSE
    /\ UNCHANGED <<remaining, processed, failed, todo, idx, returnTo, waited,
                   fetchCount, savesSinceFetch, remFile, sink, provider, orig,
                   resumed, diskBefore,
                   configLoaded, result, secondVars, rankVars, musicVars>>

\* The process is killed inside `with open(REMAINING_FILE, 'w')`.
CrashWritingRemaining ==
    /\ pc = "save_remaining"
    /\ remaining # <<>>
    /\ remFile' = CorruptFile
    /\ pc' = "idle"
    /\ exit' = "interrupted"
    /\ chainClean' = FALSE
    /\ UNCHANGED <<remaining, processed, failed, todo, idx, returnTo, waited,
                   fetchCount, savesSinceFetch, progFile, sink, provider, orig,
                   resumed, diskBefore,
                   configLoaded, result, secondVars, rankVars, musicVars>>

Next ==
    \/ Start
    \/ Iterate
    \/ LoopEnd
    \/ SaveProgressFile
    \/ SaveRemainingFile
    \/ Interrupt
    \/ CrashWritingProgress
    \/ CrashWritingRemaining

Spec == Init /\ [][Next]_vars

\* ------------------------------------------------------ a second invocation
\* main run a second time while the first process is running: lines 289-321
\* look for the keys and for REMAINING_FILE, and for nothing that tells that
\* another process is at work.
SecondStart ==
    /\ pc # "idle"
    /\ pc2 = "none"
    /\ \E cfg \in BOOLEAN, n \in 0..MaxCandidates :
          LET loaded == load_remaining(remFile)
              list   == IF loaded = <<>> THEN SourceList(n) ELSE loaded
          IN  IF ~cfg \/ LoadRaises(remFile) \/ list = <<>>
              THEN pc2' = "ended" /\ remaining2' = remaining2
              ELSE pc2' = "loop" /\ remaining2' = list
    /\ UNCHANGED <<backfillVars, processed2, fetchCount2, wrote2, rankVars,
                   musicVars>>

\* One iteration of the second process's loop, lines 332-395, its
\* save_progress call included.  Each iteration that is not throttled removes
\* its movie, so the movie of the next one is the first of `remaining`.
SecondIterate ==
    /\ pc2 = "loop"
    /\ remaining2 # <<>>
    /\ LET movie == Head(remaining2) IN
       \E raw_data \in fetch_imdb_details(movie) :
          /\ fetchCount2' = fetchCount2 + 1
          /\ IF raw_data = "RATE_LIMITED" THEN
                /\ progFile' = FileOf(ProgressRecord(processed2, remaining2))
                /\ remFile' = RemainingWrite(remFile, remaining2)
                /\ wrote2' = wrote2 + 1
                /\ pc2' = "ended"
                /\ UNCHANGED <<remaining2, processed2, provider, sink>>
             ELSE
                LET st == loop_body([processed |-> processed2, failed |-> <<>>,
                                     remaining |-> remaining2, sink |-> sink],
                                    movie, raw_data)
                IN  /\ processed2' = st.processed
                    /\ remaining2' = st.remaining
                    /\ sink' = st.sink
                    /\ provider' = [provider EXCEPT ![movie] = raw_data]
                    /\ pc2' = pc2
                    /\ IF raw_data = "ok" /\ SaveDue(st.processed)
                       THEN /\ progFile' = FileOf(ProgressRecord(st.processed,
                                                                 st.remaining))
                            /\ remFile' = RemainingWrite(remFile, st.remaining)
                            /\ wrote2' = wrote2 + 1
                       ELSE UNCHANGED <<progFile, remFile, wrote2>>
    /\ UNCHANGED <<pc, exit, remaining, processed, failed, todo, idx, returnTo,
                   waited, fetchCount, savesSinceFetch, orig, resumed,
                   chainClean, diskBefore, configLoaded, result, rankVars,
                   musicVars>>

\* The second process's loop is over: the final save and the clean-up, lines
\* 398-402.
SecondEnd ==
    /\ pc2 = "loop"
    /\ remaining2 = <<>>
    /\ progFile' = FileOf(ProgressRecord(processed2, remaining2))
    /\ remFile' = CleanUp(RemainingWrite(remFile, remaining2), remaining2)
    /\ wrote2' = wrote2 + 1
    /\ pc2' = "ended"
    /\ UNCHANGED <<pc, exit, remaining, processed, failed, todo, idx, returnTo,
                   waited, fetchCount, savesSinceFetch, sink, provider, orig,
                   resumed, chainClean, diskBefore, configLoaded, result,
                   remaining2, processed2, fetchCount2, rankVars, musicVars>>

\* The first invocation, on a directory no run has used.
FirstStart == exit = "none" /\ Start

\* Two invocations, neither of them killed.
NextTwo ==
    \/ FirstStart
    \/ Iterate
    \/ LoopEnd
    \/ SaveProgressFile
    \/ SaveRemainingFile
    \/ SecondStart
    \/ SecondIterate
    \/ SecondEnd

SpecTwo == Init /\ [][NextTwo]_vars

\* =========================================================================
\* The rankings update job, tennis-quiz/data/update_rankings.py.
\* =========================================================================

\* ---------------------------------------------------------------- bounds
\* Longest players list of manual_stats.json.
MaxPlayers == 2

\* Longest ranking list the FlashLive API returns.
MaxApi == 2

\* ------------------------------------------------------ program constants
\* RETIRED_RANKING, line 45.
RETIRED_RANKING == 9999

\* The ranking of a player not found in the API list, line 289.
NOT_FOUND_RANKING == 500

\* The ranking given when the API list could not be fetched, line 294.
API_FAILED_RANKING == 100

\* ----------------------------------------------------------------- names
\* A name is held in the state as a string and read as its characters.
PlayerNames == {"Alex De Minaur", "Juan Martin Del Potro", "Rafael Nadal", "Nadal"}

\* PARTICIPANT_NAME values: last-name-first names, two with an initial for
\* the first name, one of a single token, one of two first names, and the ""
\* that player.get("PARTICIPANT_NAME", "") gives for a missing name.
ApiNames == {"De Minaur Alex", "Del Potro J.", "Nadal Rafael", "Nadal R.",
             "Juan Martin", "Nadal", ""}

Chars(s) ==
    CASE s = "Alex De Minaur" ->
          <<"A", "l", "e", "x", " ", "D", "e", " ", "M", "i", "n", "a", "u", "r">>
      [] s = "Juan Martin Del Potro" ->
          <<"J", "u", "a", "n", " ", "M", "a", "r", "t", "i", "n", " ", "D", "e", "l", " ", "P", "o", "t", "r", "o">>
      [] s = "Rafael Nadal" ->
          <<"R", "a", "f", "a", "e", "l", " ", "N", "a", "d", "a", "l">>
      [] s = "Nadal" ->
          <<"N", "a", "d", "a", "l">>
      [] s = "De Minaur Alex" ->
          <<"D", "e", " ", "M", "i", "n", "a", "u", "r", " ", "A", "l", "e", "x">>
      [] s = "Del Potro J." ->
          <<"D", "e", "l", " ", "P", "o", "t", "r", "o", " ", "J", ".">>
      [] s = "Nadal Rafael" ->
          <<"N", "a", "d", "a", "l", " ", "R", "a", "f", "a", "e", "l">>
      [] s = "Nadal R." ->
          <<"N", "a", "d", "a", "l", " ", "R", ".">>
      [] s = "Juan Martin" ->
          <<"J", "u", "a", "n", " ", "M", "a", "r", "t", "i", "n">>
      [] OTHER -> <<>>

UpperCase == <<"A", "B", "C", "D", "E", "F", "G", "H", "I", "J", "K", "L", "M",
               "N", "O", "P", "Q", "R", "S", "T", "U", "V", "W", "X", "Y", "Z">>
LowerCase == <<"a", "b", "c", "d", "e", "f", "g", "h", "i", "j", "k", "l", "m",
               "n", "o", "p", "q", "r", "s", "t", "u", "v", "w", "x", "y", "z">>

\* str.lower()
LowerChar(c) ==
    IF \E k \in 1..Len(UpperCase) : UpperCase[k] = c
    THEN LowerCase[CHOOSE k \in 1..Len(UpperCase) : UpperCase[k] = c]
    ELSE c

Lower(str) == [k \in 1..Len(str) |-> LowerChar(str[k])]

\* str.split(): the maximal runs of characters that are not whitespace.
RECURSIVE SplitFrom(_, _, _)
SplitFrom(str, k, cur) ==
    IF k > Len(str) THEN (IF cur = <<>> THEN <<>> ELSE <<cur>>)
    ELSE IF str[k] = " "
         THEN (IF cur = <<>> THEN <<>> ELSE <<cur>>) \o SplitFrom(str, k + 1, <<>>)
         ELSE SplitFrom(str, k + 1, Append(cur, str[k]))

Split(str) == SplitFrom(str, 1, <<>>)

\* `sub in str` of two strings; "" is in every string.
Contains(sub, str) ==
    \E k \in 1..(Len(str) - Len(sub) + 1) :
        SubSeq(str, k, k + Len(sub) - 1) = sub

\* ------------------------------------------ match_player_name, lines 121-155
\* Line 133: both names have at least two tokens; our_first, our_last,
\* api_first and api_last are assigned only then.
BothSplit(name_parts, api_parts) == Len(name_parts) >= 2 /\ Len(api_parts) >= 2

\* Line 140.
ExactRule(our_first, our_last, api_first, api_last) ==
    our_last = api_last /\ our_first = api_first

\* Mutant of FirstInitial: the whole first names are compared.
FirstInitial_WholeName(our_first, api_first) == our_first = api_first

\* our_first[0] == api_first[0], lines 144 and 148.
FirstInitial(our_first, api_first) == our_first[1] = api_first[1]

\* Line 144.
InitialRule(our_first, our_last, api_first, api_last) ==
    our_last = api_last /\ FirstInitial(our_first, api_first)

\* Mutant of FuzzyRule: the rule is missing.
FuzzyRule_Missing(our_first, our_last, api_first, api_name_lower) == FALSE

\* Line 148.
FuzzyRule(our_first, our_last, api_first, api_name_lower) ==
    Contains(our_last, api_name_lower) /\ FirstInitial(our_first, api_first)

\* Mutant of DirectSubstring: the second test is made the other way round.
DirectSubstring_NameInApi(our_last, api_name_lower, player_name_lower) ==
    \/ Contains(our_last, api_name_lower)
    \/ Contains(player_name_lower, api_name_lower)

\* Line 152.
DirectSubstring(our_last, api_name_lower, player_name_lower) ==
    \/ Contains(our_last, api_name_lower)
    \/ Contains(api_name_lower, player_name_lower)

\* One pass of the for loop of line 126 over the entry api_name.  bound: an
\* earlier pass assigned our_last.  The result is the rule whose `return
\* api_data` ends the call ("exact", line 141; "initial", line 145; "fuzzy",
\* line 149; "direct", line 153), "next" when the loop goes on, or "raise":
\* line 152 reads our_last, and Python raises UnboundLocalError when no pass
\* has assigned it.
RuleAt(player_name, api_name, bound) ==
    LET player_name_lower == Lower(Chars(player_name))
        name_parts        == Split(player_name_lower)
        api_name_lower    == Lower(Chars(api_name))
        api_parts         == Split(api_name_lower)
        block             == BothSplit(name_parts, api_parts)
        our_first         == name_parts[1]
        our_last          == name_parts[Len(name_parts)]
        api_first         == api_parts[Len(api_parts)]
        api_last          == api_parts[1]
    IN  IF block /\ ExactRule(our_first, our_last, api_first, api_last)
            THEN "exact"
        ELSE IF block /\ InitialRule(our_first, our_last, api_first, api_last)
            THEN "initial"
        ELSE IF block /\ FuzzyRule(our_first, our_last, api_first, api_name_lower)
            THEN "fuzzy"
        ELSE IF ~(bound \/ block)
            THEN "raise"
        ELSE IF DirectSubstring(our_last, api_name_lower, player_name_lower)
            THEN "direct"
        ELSE "next"

\* Line 133 for the entry api_name.
Assigns(player_name, api_name) ==
    BothSplit(Split(Lower(Chars(player_name))), Split(Lower(Chars(api_name))))

\* RuleAt and Assigns tabulated over the names of the model.
RuleTable ==
    [player_name \in PlayerNames, api_name \in ApiNames, bound \in BOOLEAN |->
        RuleAt(player_name, api_name, bound)]

AssignsTable ==
    [player_name \in PlayerNames, api_name \in ApiNames |->
        Assigns(player_name, api_name)]

NoneFound(player_name) ==
    [kind |-> "none", index |-> 0, rule |-> "no_rule", name |-> player_name]

\* The for loop of line 126 from entry k on.
RECURSIVE MatchFrom(_, _, _, _)
MatchFrom(player_name, rankings, k, bound) ==
    IF k > Len(rankings) THEN NoneFound(player_name)
    ELSE LET rule == RuleTable[player_name, rankings[k].name, bound] IN
         CASE rule = "raise" ->
                [kind |-> "raise", index |-> k, rule |-> "no_rule",
                 name |-> player_name]
           [] rule = "next" ->
                MatchFrom(player_name, rankings, k + 1,
                          bound \/ AssignsTable[player_name, rankings[k].name])
           [] OTHER ->
                [kind |-> "match", index |-> k, rule |-> rule,
                 name |-> player_name]

\* Mutant of match_player_name: the pass starts at an entry that depends on
\* how many calls were made before.
match_player_name_Rotating(player_name, rankings) ==
    MatchFrom(player_name, rankings, 1 + (matchCalls % 2), FALSE)

\* What a call ends with: the entry of index `index` returned by rule `rule`
\* (kind "match"), None (kind "none"), or an exception (kind "raise").
match_player_name(player_name, rankings) ==
    MatchFrom(player_name, rankings, 1, FALSE)


\* ------------------------------------------------------- main, lines 230-315
\* A "currentRanking" of manual_stats.json: absent (<<>>) or one number, here
\* a rank below every place of the fetched listing.
PriorRankings == {<<>>, <<MaxPlayers + MaxApi + 1>>}

\* Python's None.
None == "None"

\* The keys of a player of manual_stats.json that main copies with
\* player.get, lines 262-271.
StatFields ==
    {"nationality", "birthdate", "hand", "backhand", "grandSlamTitles",
     "careerTitles", "highestRanking", "turnedPro", "deathDate", "difficulty"}

\* The keys of a merged player, lines 260-294, and of an object of
\* players_data.js, lines 193-206.
OutputFields == {"name", "currentRanking"} \cup StatFields

\* The second argument of each player.get of lines 262-271 and 194-205
\* (None where there is none).
Defaults ==
    [nationality     |-> "Unknown",
     birthdate       |-> "1990-01-01",
     hand            |-> "Right",
     backhand        |-> "Two-handed",
     grandSlamTitles |-> 0,
     careerTitles    |-> 0,
     highestRanking  |-> 100,
     turnedPro       |-> 2000,
     deathDate       |-> None,
     difficulty      |-> "medium"]

\* dict.get(key, default)
Get(dict, key, default) == IF key \in DOMAIN dict THEN dict[key] ELSE default

\* The stats a player of manual_stats.json can carry: every key, none, some.
EnteredStats ==
    [nationality     |-> "Spain",
     birthdate       |-> "1986-06-03",
     hand            |-> "Left",
     backhand        |-> "One-handed",
     grandSlamTitles |-> 22,
     careerTitles    |-> 92,
     highestRanking  |-> 1,
     turnedPro       |-> 2001,
     deathDate       |-> "2020-01-01",
     difficulty      |-> "easy"]

FullStats == [key \in StatFields |-> EnteredStats[key]]

StatsGiven ==
    { [key \in keys |-> EnteredStats[key]] :
        keys \in {StatFields, {}, {"nationality", "grandSlamTitles"}} }

\* The players of manual_stats.json: `stats` is the player's dict without the
\* keys name, isRetired and currentRanking.
ManualPlayer ==
    [name : PlayerNames, isRetired : BOOLEAN, currentRanking : PriorRankings,
     stats : {FullStats}]

\* The players of a manual_stats.json in which stats are left out.
SparseNames == {"Rafael Nadal", "Nadal"}

SparsePlayer ==
    [name : SparseNames, isRetired : BOOLEAN, currentRanking : {<<>>},
     stats : StatsGiven]

SparseLists ==
    { l \in UNION { [1..n -> SparsePlayer] : n \in 0..MaxPlayers } :
        \A i, j \in 1..Len(l) : l[i].name = l[j].name => i = j }

\* The lists load_manual_stats can return, lines 103-118: the players of the
\* file, each name once, or [] when the file is missing or unreadable.
ManualLists ==
    { l \in UNION { [1..n -> ManualPlayer] : n \in 0..MaxPlayers } :
        \A i, j \in 1..Len(l) : l[i].name = l[j].name => i = j }

\* The rankings fetch_atp_rankings can return, lines 51-96: one entry per
\* ranked player in the order of the listing, its rank its place in the
\* listing, or {} when the request fails.
ApiLists ==
    { [k \in 1..Len(ns) |-> [name |-> ns[k], rank |-> k]] :
        ns \in { l \in UNION { [1..n -> ApiNames] : n \in 0..MaxApi } :
                   \A i, j \in 1..Len(l) : l[i] = l[j] => i = j } }

\* Mutant of player_ranking: the ranking list is looked at before isRetired.
player_ranking_MatchFirst(player, rankings) ==
    IF rankings # <<>>
    THEN LET found == match_player_name(player.name, rankings) IN
         [called |-> TRUE, found |-> found,
          ranking |-> IF found.kind = "match" THEN rankings[found.index].rank
                      ELSE NOT_FOUND_RANKING]
    ELSE IF player.isRetired
    THEN [called |-> FALSE, found |-> NoMatchCall, ranking |-> RETIRED_RANKING]
    ELSE [called |-> FALSE, found |-> NoMatchCall, ranking |-> API_FAILED_RANKING]

\* "Handle ranking", lines 274-294: whether match_player_name is called, what
\* the call ends with, and the currentRanking given to the merged player.
player_ranking(player, rankings) ==
    IF player.isRetired
    THEN [called |-> FALSE, found |-> NoMatchCall, ranking |-> RETIRED_RANKING]
    ELSE IF rankings # <<>>
    THEN LET found == match_player_name(player.name, rankings) IN
         [called |-> TRUE, found |-> found,
          ranking |-> IF found.kind = "match" THEN rankings[found.index].rank
                      ELSE NOT_FOUND_RANKING]
    ELSE [called |-> FALSE, found |-> NoMatchCall, ranking |-> API_FAILED_RANKING]

\* Mutant of merged_player: only the keys the player has are copied.
merged_player_CopyGiven(player, ranking) ==
    [key \in {"name", "currentRanking"} \cup DOMAIN player.stats |->
        IF key = "name" THEN player.name
        ELSE IF key = "currentRanking" THEN ranking
        ELSE player.stats[key]]

\* The dict merged_player of lines 260-294, with the currentRanking that
\* "Handle ranking" gave.
merged_player(player, ranking) ==
    [key \in OutputFields |->
        IF key = "name" THEN player.name
        ELSE IF key = "currentRanking" THEN ranking
        ELSE Get(player.stats, key, Defaults[key])]

\* The properties generate_js_output writes for a merged player, lines
\* 193-206.
props(player) ==
    [key \in OutputFields |->
        IF key = "name" THEN Get(player, "name", None)
        ELSE IF key = "currentRanking" THEN Get(player, "currentRanking", RETIRED_RANKING)
        ELSE Get(player, key, Defaults[key])]

\* The state when main is entered: manual_stats.json holds some list of
\* players and nothing has run.
RankInit ==
    /\ BackfillInit
    /\ SecondOff
    /\ MusicOff
    /\ rpc = "start"
    /\ manual_players \in ManualLists
    /\ api_rankings = <<>>
    /\ merged_players = <<>>
    /\ nextPlayer = 0
    /\ matchCalls = 0
    /\ lastMatch = NoMatchCall
    /\ outputFile = [state |-> "absent", data |-> {}]

\* Lines 237-247: main returns when there are no manual stats, and fetches the
\* API rankings otherwise.
RankStart ==
    /\ rpc = "start"
    /\ IF manual_players = <<>>
       THEN rpc' = "done" /\ api_rankings' = api_rankings
       ELSE rpc' = "loop" /\ api_rankings' \in ApiLists
    /\ UNCHANGED <<manual_players, merged_players, nextPlayer, matchCalls,
                   lastMatch, outputFile>>

\* One pass of the loop of lines 259-296.  An exception of match_player_name
\* is caught nowhere: it ends main.
ProcessPlayer ==
    /\ rpc = "loop"
    /\ nextPlayer < Len(manual_players)
    /\ LET player == manual_players[nextPlayer + 1]
           r      == player_ranking(player, api_rankings)
       IN  /\ matchCalls' = IF r.called THEN matchCalls + 1 ELSE matchCalls
           /\ lastMatch' = IF r.called THEN r.found ELSE lastMatch
           /\ IF r.found.kind = "raise"
              THEN /\ rpc' = "raised"
                   /\ UNCHANGED <<merged_players, nextPlayer>>
              ELSE /\ rpc' = rpc
                   /\ merged_players' =
                        Append(merged_players, merged_player(player, r.ranking))
                   /\ nextPlayer' = nextPlayer + 1
    /\ UNCHANGED <<manual_players, api_rankings, outputFile>>

\* Lines 298-305: players_data.js is written with one object per merged
\* player (generate_js_output, lines 158-227; the order of the objects in the
\* file is left out).
WriteOutput ==
    /\ rpc = "loop"
    /\ nextPlayer = Len(manual_players)
    /\ outputFile' = [state |-> "written",
                      data |-> { props(player) : player \in Range(merged_players) }]
    /\ rpc' = "done"
    /\ UNCHANGED <<manual_players, api_rankings, merged_players, nextPlayer,
                   matchCalls, lastMatch>>

RankNext ==
    /\ \/ RankStart
       \/ ProcessPlayer
       \/ WriteOutput
    /\ UNCHANGED <<backfillVars, secondVars, musicVars>>

SpecRank == RankInit /\ [][RankNext]_vars

\* main on a manual_stats.json whose players lack stats.
SparseInit ==
    /\ BackfillInit
    /\ SecondOff
    /\ MusicOff
    /\ rpc = "start"
    /\ manual_players \in SparseLists
    /\ api_rankings = <<>>
    /\ merged_players = <<>>
    /\ nextPlayer = 0
    /\ matchCalls = 0
    /\ lastMatch = NoMatchCall
    /\ outputFile = [state |-> "absent", data |-> {}]

SpecSparse == SparseInit /\ [][RankNext]_vars

\* =========================================================================
\* The music import job, music/data/import_music.py.
\* =========================================================================

\* ---------------------------------------------------------------- bounds
\* Longest import queue.
MaxQueue == 2

\* The api_request frames the interpreter's recursion limit leaves room for
\* (sys.getrecursionlimit() is 1000 by default; the model scales it).
RecursionLimit == 3

\* ------------------------------------------------------ program constants
\* calculate_decade's "2020s" for a song without a year, line 177.
DEFAULT_DECADE == 2020

\* -------------------------------------------------------------- the inputs
\* The "release_date" an album can carry: none, a date, a year, a word.
ReleaseDates ==
    { <<>>,
      <<"1", "9", "9", "9", "-", "0", "5", "-", "1", "7">>,
      <<"2", "0", "0", "4">>,
      <<"u", "n", "k", "n", "o", "w", "n">> }

\* The track search_track returns: whether it names an artist and an album
\* (extract_artist_id and extract_album_id, lines 152-163).
Tracks == [artist : BOOLEAN, album : BOOLEAN]

\* The import queues: per entry, whether the song is in the database already.
Queues == UNION { [1..n -> BOOLEAN] : n \in 0..MaxQueue }

\* ------------------------------------------------------- int(), line 268
Digits == <<"0", "1", "2", "3", "4", "5", "6", "7", "8", "9">>

IsDigit(c) == \E k \in 1..Len(Digits) : Digits[k] = c

DigitValue(c) == (CHOOSE k \in 1..Len(Digits) : Digits[k] = c) - 1

\* int(str) raises ValueError unless str is a run of digits.
IntRaises(str) == str = <<>> \/ \E k \in 1..Len(str) : ~IsDigit(str[k])

RECURSIVE IntOf(_)
IntOf(str) ==
    IF str = <<>> THEN 0
    ELSE IntOf(SubSeq(str, 1, Len(str) - 1)) * Len(Digits) + DigitValue(str[Len(str)])

\* release_date[:4]
FirstFour(str) == SubSeq(str, 1, IF Len(str) < 4 THEN Len(str) ELSE 4)

\* Lines 262-268: release_year stays None without album details or with an
\* empty release_date; int() is called on the first four characters
\* otherwise, inside no try.  album_details: <<>> for None, <<release_date>>.
release_year(album_details) ==
    IF album_details = <<>> \/ album_details[1] = <<>>
    THEN [raises |-> FALSE, year |-> <<>>]
    ELSE IF IntRaises(FirstFour(album_details[1]))
    THEN [raises |-> TRUE, year |-> <<>>]
    ELSE [raises |-> FALSE, year |-> <<IntOf(FirstFour(album_details[1]))>>]

\* calculate_decade, lines 174-179 (the decade as a number).
calculate_decade(year) ==
    IF year = <<>> \/ year[1] = 0 THEN DEFAULT_DECADE
    ELSE (year[1] \div Len(Digits)) * Len(Digits)

\* ------------------------------------------------------------ process_song
\* The request process_song makes after the request `from` for the track t,
\* lines 250-263: the artist's details when the track names an artist, the
\* album's when it names an album, "none" when the song is built next.
NextRequest(from, t) ==
    IF from = "search" /\ t.artist THEN "artist"
    ELSE IF from \in {"search", "artist"} /\ t.album THEN "album"
    ELSE "none"

\* process_song from the return of the request `from` on: the next request,
\* or the song is built (lines 272-287) and appended to new_songs (line 339).
AfterRequest(from, t, year) ==
    /\ requests_used' = requests_used + 1
    /\ track' = t
    /\ depth' = 0
    /\ raised' = raised
    /\ IF NextRequest(from, t) # "none"
       THEN /\ mpc' = "request"
            /\ stage' = NextRequest(from, t)
            /\ UNCHANGED <<new_songs, failedQueries>>
       ELSE /\ mpc' = "queue"
            /\ stage' = "none"
            /\ new_songs' = Append(new_songs,
                                   [releaseYear |-> year,
                                    releaseDecade |-> calculate_decade(year)])
            /\ failedQueries' = failedQueries

\* search_track returned None: process_song returns None (line 232) and the
\* query is appended to failed (line 342).
NotFound ==
    /\ requests_used' = requests_used + 1
    /\ failedQueries' = failedQueries + 1
    /\ mpc' = "queue"
    /\ stage' = "none"
    /\ depth' = 0
    /\ UNCHANGED <<track, new_songs, raised>>

\* An exception leaves process_song and main.
Raise(exception) ==
    /\ mpc' = "raised"
    /\ raised' = exception
    /\ UNCHANGED <<stage, depth, track, new_songs, failedQueries, requests_used>>

\* What process_song does with the value its request came to.  value: <<>>
\* for None; <<t>> for a track, <<release_date>> for an album's details,
\* anything not empty for an artist's details.
Returned(value) ==
    CASE stage = "search" ->
            IF value = <<>> THEN NotFound
            ELSE AfterRequest("search", value[1], <<>>)
      [] stage = "artist" ->
            AfterRequest("artist", track, <<>>)
      [] OTHER ->
            IF release_year(value).raises THEN Raise("ValueError")
            ELSE AfterRequest("album", track, release_year(value).year)

\* The values a request of the stage can come to when the API does not
\* answer 429: None (an HTTP or URL error, line 99-106, or an answer without
\* the item asked for), or the item.
Values(st) ==
    CASE st = "search" -> {<<>>} \cup { <<t>> : t \in Tracks }
      [] st = "artist" -> {<<>>, <<"genres">>}
      [] OTHER         -> {<<>>} \cup { <<d>> : d \in ReleaseDates }

\* ------------------------------------------------- main, lines 296-349
MusicInit ==
    /\ BackfillInit
    /\ SecondOff
    /\ RankOff
    /\ mpc = "start"
    /\ queue \in Queues
    /\ qpos = 0
    /\ stage = "none"
    /\ depth = 0
    /\ track = NoTrack
    /\ new_songs = <<>>
    /\ skipped = 0
    /\ failedQueries = 0
    /\ requests_used = 0
    /\ songsFile = NoFile
    /\ raised = "none"

\* Lines 301-319: main returns without an API key and on an empty queue.
MusicStart ==
    /\ mpc = "start"
    /\ \E key \in BOOLEAN :
          mpc' = IF key /\ queue # <<>> THEN "queue" ELSE "done"
    /\ UNCHANGED <<queue, qpos, stage, depth, track, new_songs, skipped,
                   failedQueries, requests_used, songsFile, raised>>

\* The head of the loop of line 326: a song the database has is skipped
\* (lines 331-334), process_song is called for another (line 336); after the
\* last entry the new songs are written, if there are any (lines 345-348).
TakeEntry ==
    /\ mpc = "queue"
    /\ IF qpos = Len(queue)
       THEN /\ mpc' = "done"
            /\ songsFile' = IF new_songs # <<>> THEN FileOf(new_songs) ELSE songsFile
            /\ UNCHANGED <<qpos, stage, skipped>>
       ELSE /\ qpos' = qpos + 1
            /\ songsFile' = songsFile
            /\ IF queue[qpos + 1]
               THEN /\ skipped' = skipped + 1
                    /\ UNCHANGED <<mpc, stage>>
               ELSE /\ mpc' = "request"
                    /\ stage' = "search"
                    /\ skipped' = skipped
    /\ UNCHANGED <<queue, depth, track, new_songs, failedQueries,
                   requests_used, raised>>

\* api_request, lines 94-98, in the frame with `frames` api_request frames
\* below it: HTTP 429 makes it sleep 60 s and call itself.  With no room left
\* for the call Python raises RecursionError: in the caller's except block,
\* from where it leaves every frame ("RecursionError"), or inside the new
\* frame's try, where line 104 catches it and returns None ("none").
api_request_429(frames) ==
    IF frames + 1 < RecursionLimit THEN {"retry"} ELSE {"none", "RecursionError"}

\* The API answers 429 to the request under way.
Throttled ==
    /\ mpc = "request"
    /\ \E outcome \in api_request_429(depth) :
          CASE outcome = "retry" ->
                 /\ depth' = depth + 1
                 /\ UNCHANGED <<mpc, stage, track, new_songs, failedQueries,
                                requests_used, raised>>
            [] outcome = "none" -> Returned(<<>>)
            [] OTHER -> Raise("RecursionError")
    /\ UNCHANGED <<queue, qpos, skipped, songsFile>>

\* The API answers the request under way otherwise, or not at all: every
\* api_request frame returns what the innermost one got.
Answered ==
    /\ mpc = "request"
    /\ \E value \in Values(stage) : Returned(value)
    /\ UNCHANGED <<queue, qpos, skipped, songsFile>>

MusicNext ==
    /\ \/ MusicStart
       \/ TakeEntry
       \/ Throttled
       \/ Answered
    /\ UNCHANGED <<backfillVars, secondVars, rankVars>>

SpecMusic == MusicInit /\ [][MusicNext]_vars

\* ------------------------------------------------------------------ claims
\* A save_progress call is running and has written PROGRESS_FILE.
CountsSaved == pc = "save_remaining"

persisted_processed_count == progFile.data[1]
persisted_remaining_count == progFile.data[2]

\* A step in which fetch_imdb_details is called.
FetchStep == fetchCount' = fetchCount + 1

\* A step in which a save_progress call returns.
SaveReturns == savesSinceFetch' = savesSinceFetch + 1

\* The run of main over `list` when no fetch is throttled: the loop body
\* applied to every movie in turn with the provider's answer for it.
RECURSIVE UninterruptedFrom(_, _, _)
UninterruptedFrom(st, list, k) ==
    IF k > Len(list) THEN st
    ELSE UninterruptedFrom(loop_body(st, list[k], provider[list[k]]), list, k + 1)

Uninterrupted(list) ==
    UninterruptedFrom([processed |-> <<>>, failed |-> <<>>,
                       remaining |-> list, sink |-> {}], list, 1)

\* C1 (as claimed): at every checkpoint save the persisted processed_count plus
\* remaining_count is the size of the candidate set the run started with, and
\* processed and remaining together are that set.
C1_CountsPartitionOriginal ==
    CountsSaved =>
        /\ persisted_processed_count + persisted_remaining_count = Len(todo)
        /\ Range(processed) \cup Range(remaining) = Range(todo)

\* C1 (amended): at every checkpoint save processed, failed and remaining
\* together are the candidate set the run started with, and the persisted
\* processed_count plus remaining_count is its size less the number of
\* candidates whose fetch failed so far in the run.
C1_CountsPartitionWithFailed ==
    CountsSaved =>
        /\ persisted_processed_count = Len(processed)
        /\ persisted_remaining_count = Len(remaining)
        /\ persisted_processed_count + persisted_remaining_count
              = Len(todo) - Len(failed)
        /\ Range(processed) \cup Range(failed) \cup Range(remaining) = Range(todo)

C1_Witness ==
    /\ CountsSaved
    /\ processed # <<>>
    /\ failed # <<>>
    /\ remaining # <<>>

\* C2: at every checkpoint save no candidate is both in the processed list and
\* in the remaining list.
C2_ProcessedRemainingDisjoint ==
    pc \in {"save_progress", "save_remaining"} =>
        Range(processed) \cap Range(remaining) = {}

C2_Witness ==
    /\ pc = "save_progress"
    /\ Len(processed) >= 2
    /\ failed # <<>>
    /\ remaining # <<>>

\* C3: once a fetch is classified throttled, the process makes no further
\* fetch call and no output-sink write, does not go back to the loop, and
\* ends having completed exactly one save_progress call since that fetch.
ThrottlePending == pc # "idle" /\ returnTo = "return"

C3_ThrottleSavesOnceAndStops ==
    [][ ThrottlePending =>
          /\ fetchCount' = fetchCount
          /\ sink' = sink
          /\ pc' # "loop"
          /\ savesSinceFetch' <= 1
          /\ (exit' = "throttled" => pc' = "idle" /\ savesSinceFetch' = 1) ]_vars

C3_Witness ==
    /\ pc = "idle"
    /\ exit = "throttled"
    /\ processed # <<>>
    /\ savesSinceFetch = 1
    /\ fetchCount = Len(processed) + Len(failed) + 1

\* C4: a candidate whose fetch failed (None) is appended to failed and removed
\* from remaining, the loop goes on with the next candidate, no later fetch of
\* the run is for a failed candidate, and no remaining-set file written later
\* in the run lists one.
C4_FailedSkippedNotRetried ==
    [][ /\ (FetchStep => todo[idx + 1] \notin Range(failed))
        /\ (Len(failed') = Len(failed) + 1 =>
              /\ failed' = Append(failed, todo[idx + 1])
              /\ todo[idx + 1] \notin Range(remaining')
              /\ Len(remaining') = Len(remaining) - 1
              /\ pc' = "loop"
              /\ idx' = idx + 1)
        /\ (pc # "idle" /\ remFile' # remFile /\ remFile'.state = "ok" =>
              Range(remFile'.data) \cap Range(failed') = {}) ]_vars

C4_Witness ==
    /\ pc = "loop"
    /\ idx < Len(todo)
    /\ failed # <<>>
    /\ savesSinceFetch = 1
    /\ remFile = FileOf(remaining)

\* C5 (as claimed): every fetch call of a run but the first is preceded by the
\* sleep of the minimum inter-request delay since the previous fetch call.
C5_DelayBeforeEveryFetch ==
    [][ FetchStep /\ fetchCount >= 1 => waited ]_vars

\* C6 (as claimed): after an interruption the persisted remaining set lists no
\* candidate the interrupted run had processed and every candidate it had not
\* yet processed.
C6_InterruptLeavesCheckpoint ==
    (pc = "idle" /\ exit = "interrupted" /\ remFile.state = "ok") =>
        /\ Range(remFile.data) \cap Range(processed) = {}
        /\ Range(remaining) \subseteq Range(remFile.data)

\* C7: when a chain of runs over the Source Loader's list, each but the last
\* stopped by throttling and the next resumed from the checkpoint, completes,
\* the records handed to the output sink are those of one run over that list
\* in which no fetch is throttled.
C7_ResumeEqualsUninterrupted ==
    (pc = "idle" /\ exit = "completed" /\ chainClean) =>
        /\ \A c \in Range(orig) : provider[c] # "unknown"
        /\ sink = Uninterrupted(orig).sink

C7_Witness ==
    /\ pc = "idle"
    /\ exit = "completed"
    /\ chainClean
    /\ resumed
    /\ Len(orig) >= 3
    /\ Len(todo) < Len(orig)
    /\ sink # {}
    /\ sink # Range(orig)

\* C8 (as claimed): when the process dies during a save_progress call, the
\* files on disk are together what they were before the call or together what
\* the completed call leaves.
C8_SaveAllOrNothing ==
    [][ (pc \in {"save_progress", "save_remaining"} /\ exit' = "interrupted") =>
          \/ <<progFile', remFile'>> = diskBefore
          \/ <<progFile', remFile'>> =
                <<FileOf(ProgressRecord(processed, remaining)),
                  RemainingWrite(diskBefore[2], remaining)>> ]_vars

\* C9 (as claimed): a run started on an unreadable remaining-set file does not
\* end in an error; when it goes on, it goes on as a fresh run over the Source
\* Loader's list.
C9_CorruptCheckpointFailsOpen ==
    [][ (pc = "idle" /\ remFile.state = "corrupt" /\ exit' # "config_missing") =>
          /\ exit' # "error"
          /\ (pc' = "loop" => ~resumed' /\ todo' = orig') ]_vars

\* C10 (as claimed): when a save_progress call returns, the remaining-set file
\* holds the in-memory remaining list, as long as the persisted
\* remaining_count, when the list is non-empty, and does not exist when it is
\* empty.
C10_FileReflectsRemaining ==
    [][ SaveReturns =>
          IF remaining' # <<>>
          THEN /\ remFile' = FileOf(remaining')
               /\ progFile'.state = "ok"
               /\ progFile'.data[2] = Len(remFile'.data)
          ELSE remFile' = NoFile ]_vars

\* C11: the remaining-set file is removed only by a run that ends its loop with
\* an empty remaining list; a run that ends by throttling leaves the file
\* holding its non-empty remaining list; a run that completes its loop ends
\* with no remaining-set file on disk.
C11_FileDeletedOnlyWhenEmpty ==
    [][ /\ (remFile.state # "absent" /\ remFile'.state = "absent" =>
              remaining = <<>> /\ exit' = "completed")
        /\ (exit # "throttled" /\ exit' = "throttled" =>
              remaining' # <<>> /\ remFile' = FileOf(remaining'))
        /\ (exit # "completed" /\ exit' = "completed" =>
              remaining' = <<>> /\ remFile' = NoFile) ]_vars

C11_Witness ==
    /\ pc = "idle"
    /\ exit = "completed"
    /\ resumed
    /\ remFile = NoFile
    /\ diskBefore[2].state = "ok"

\* C12: a process that starts on a non-empty remaining-set file works on
\* exactly that list, in its order, and takes nothing from the Source Loader;
\* one that starts without a file works on the Source Loader's list.
C12_StartListFromCheckpointOrSource ==
    [][ (pc = "idle" /\ pc' = "loop") =>
          IF remFile.state = "ok" /\ remFile.data # <<>>
          THEN /\ todo' = remFile.data
               /\ remaining' = remFile.data
               /\ resumed'
               /\ orig' = orig
          ELSE /\ ~resumed'
               /\ todo' = orig'
               /\ remaining' = orig'
               /\ \E n \in 1..MaxCandidates : orig' = SourceList(n) ]_vars

C12_Witness ==
    /\ pc = "loop"
    /\ idx = 0
    /\ resumed
    /\ todo = remFile.data
    /\ Len(todo) >= 2
    /\ todo # orig

\* C13: a process that finds its configuration missing, or gets no candidate
\* from the Source Loader, ends at once: a process that is at work has its
\* configuration and a non-empty candidate list, and a process that ends at
\* its start has called no fetch, written nothing to the output sink and
\* written neither checkpoint file.
C13_NoWorkWithoutConfigOrCandidates ==
    [][ /\ (pc' # "idle" => configLoaded' /\ todo' # <<>>)
        /\ (pc = "idle" /\ pc' = "idle" =>
              /\ fetchCount' = fetchCount
              /\ sink' = sink
              /\ progFile' = progFile
              /\ remFile' = remFile) ]_vars

C13_Witness ==
    /\ pc = "idle"
    /\ exit = "config_missing"
    /\ ~configLoaded
    /\ remFile.state = "ok"
    /\ remFile.data # <<>>

\* C14: a call of match_player_name returns the first entry, in the order of
\* the listing, for which any of the four rules fires (and None when no rule
\* fires for any entry); no later entry is preferred for a stronger rule.
\* The rules are those of lines 140-152 read with our_last the last token of
\* the candidate's name.
C14_FirstFiringRecordReturned ==
    lastMatch.kind # "no_call" =>
        LET firing == { k \in 1..Len(api_rankings) :
                          RuleTable[lastMatch.name, api_rankings[k].name, TRUE] # "next" }
        IN  IF firing = {}
            THEN lastMatch.kind = "none"
            ELSE /\ lastMatch.kind = "match"
                 /\ lastMatch.index \in firing
                 /\ \A k \in firing : lastMatch.index <= k

\* The same for the calls that return: checked to hold, it shows that C14 fails
\* only where the call raises.
ReturnsFirstFiringRecord ==
    lastMatch.kind # "raise" => C14_FirstFiringRecordReturned

\* A call that returned the first of two entries by the initial rule although
\* the second fires the exact rule.
WeakerRuleWinsByOrder ==
    /\ lastMatch.kind = "match"
    /\ lastMatch.index = 1
    /\ lastMatch.rule = "initial"
    /\ Len(api_rankings) >= 2
    /\ RuleTable[lastMatch.name, api_rankings[2].name, TRUE] = "exact"

\* The tokens of a name as match_player_name reads them.
Tokens(name) == Split(Lower(Chars(name)))

\* Whether the pair is a candidate name with a surname of several tokens and
\* the external name that is the surname followed by the first name.
SwappedPairs ==
    [ ours_name \in PlayerNames, api_name \in ApiNames |->
        LET ours == Tokens(ours_name)
        IN  /\ Len(ours) >= 3
            /\ Tokens(api_name) = Tail(ours) \o <<Head(ours)>> ]

\* C15 as the claim states it: a first-name-first candidate with a surname of
\* several tokens ("Alex De Minaur") against the surname-first external name
\* ("De Minaur Alex") is matched by the exact rule.
C15_SwappedSurnameFiresExact ==
    /\ lastMatch.kind = "match"
    /\ SwappedPairs[lastMatch.name, api_rankings[lastMatch.index].name]
    => lastMatch.rule = "exact"

\* C15, amended: that pair is matched by the fuzzy-substring rule of line 148
\* (the exact and the initial rule compare the candidate's last token with
\* the external name's first token), and a list that starts with the
\* surname-first name gives that entry.
C15_SwappedSurnameFiresFuzzy ==
    /\ /\ lastMatch.kind = "match"
       /\ SwappedPairs[lastMatch.name, api_rankings[lastMatch.index].name]
       => lastMatch.rule = "fuzzy"
    /\ /\ lastMatch.kind # "no_call"
       /\ SwappedPairs[lastMatch.name, api_rankings[1].name]
       => lastMatch.kind = "match" /\ lastMatch.index = 1

C15_Witness ==
    /\ lastMatch = [kind |-> "match", index |-> 1, rule |-> "fuzzy",
                    name |-> "Alex De Minaur"]
    /\ api_rankings[1].name = "De Minaur Alex"
    /\ SwappedPairs[lastMatch.name, api_rankings[1].name]

\* Whether the pair is a candidate name and the external name that is its
\* surname of several tokens followed by the first initial and a dot.
InitialPairs ==
    [ ours_name \in PlayerNames, api_name \in ApiNames |->
        LET ours   == Tokens(ours_name)
            theirs == Tokens(api_name)
        IN  /\ Len(theirs) >= 3
            /\ Len(ours) >= Len(theirs)
            /\ theirs[Len(theirs)] = <<ours[1][1], ".">>
            /\ SubSeq(theirs, 1, Len(theirs) - 1)
                 = SubSeq(ours, Len(ours) - Len(theirs) + 2, Len(ours)) ]

Evaluated ==
    CASE lastMatch.kind = "no_call" -> {}
      [] lastMatch.kind = "none"    -> 1..Len(api_rankings)
      [] OTHER                      -> 1..lastMatch.index

\* The call ended by returning entry k from line 153.
FallbackFired(k) ==
    lastMatch.kind = "match" /\ lastMatch.index = k /\ lastMatch.rule = "direct"

\* None of lines 141, 145 and 149 returns the entry.
NoEarlierRule(player_name, api_name) ==
    RuleTable[player_name, api_name, TRUE] \notin {"exact", "initial", "fuzzy"}

\* The fallback test as the claim states it: the candidate's last token in
\* the external name, or the candidate's full name in the external name.
FallbackAsStated ==
    [ ours_name \in PlayerNames, api_name \in ApiNames |->
        LET ours == Tokens(ours_name)
        IN  \/ Contains(ours[Len(ours)], Lower(Chars(api_name)))
            \/ Contains(Lower(Chars(ours_name)), Lower(Chars(api_name))) ]

\* The test of line 152: the second operand pair is the other way round.
FallbackAsCoded ==
    [ ours_name \in PlayerNames, api_name \in ApiNames |->
        LET ours == Tokens(ours_name)
        IN  \/ Contains(ours[Len(ours)], Lower(Chars(api_name)))
            \/ Contains(Lower(Chars(api_name)), Lower(Chars(ours_name))) ]

\* Whether line 133 is false for the pair, so that our_last is not assigned.
OneTokenPairs ==
    [ ours_name \in PlayerNames, api_name \in ApiNames |->
        Len(Tokens(ours_name)) < 2 \/ Len(Tokens(api_name)) < 2 ]

\* C17 as the claim states it: for every entry a call looks at, the fallback
\* rule returns the entry exactly when no earlier rule does and the
\* candidate's last token is a substring of the external name or the
\* candidate's full name is a substring of the external name.
C17_FallbackAsStated ==
    \A k \in Evaluated :
        FallbackFired(k) <=>
            /\ NoEarlierRule(lastMatch.name, api_rankings[k].name)
            /\ FallbackAsStated[lastMatch.name, api_rankings[k].name]

\* C17, amended: in a call that returns, the fallback rule returns an entry
\* exactly when no earlier rule does and the candidate's last token is a
\* substring of the external name or the EXTERNAL name is a substring of the
\* candidate's full name; and a call raises, at its first entry, exactly when
\* that entry or the candidate's name has fewer than two tokens.
C17_FallbackAsCoded ==
    /\ lastMatch.kind \in {"match", "none"} =>
         \A k \in Evaluated :
             FallbackFired(k) <=>
                 /\ NoEarlierRule(lastMatch.name, api_rankings[k].name)
                 /\ FallbackAsCoded[lastMatch.name, api_rankings[k].name]
    /\ lastMatch.kind # "no_call" =>
         /\ lastMatch.kind = "raise" <=>
              OneTokenPairs[lastMatch.name, api_rankings[1].name]
         /\ lastMatch.kind = "raise" => lastMatch.index = 1

\* The fallback returned an entry whose name is inside the candidate's name,
\* which the test as stated does not accept.
C17_Witness ==
    /\ lastMatch.kind = "match"
    /\ FallbackFired(lastMatch.index)
    /\ FallbackAsCoded[lastMatch.name, api_rankings[lastMatch.index].name]
    /\ ~FallbackAsStated[lastMatch.name, api_rankings[lastMatch.index].name]
    /\ api_rankings[lastMatch.index].name # ""

\* C18: a match is never fatal: every call of match_player_name ends with an
\* entry or with None, whatever the candidate's name and the external names
\* (one token, or empty), and main goes on to the next player.
C18_MatchNeverFatal ==
    /\ lastMatch.kind # "raise"
    /\ rpc # "raised"

\* C19: a player flagged isRetired never triggers a call of match_player_name,
\* whether the ranking list was fetched or not, and its currentRanking in the
\* merged players and in the written output is RETIRED_RANKING.
C19_RetiredBypassesMatch ==
    [][ /\ ( /\ rpc = "loop"
             /\ nextPlayer < Len(manual_players)
             /\ manual_players[nextPlayer + 1].isRetired )
           => /\ matchCalls' = matchCalls
              /\ lastMatch' = lastMatch
              /\ nextPlayer' = nextPlayer + 1
              /\ merged_players'[nextPlayer'].name = manual_players[nextPlayer'].name
        /\ \A k \in 1..Len(merged_players') :
               manual_players[k].isRetired =>
                   merged_players'[k].currentRanking = RETIRED_RANKING
        /\ outputFile'.state = "written" =>
               \A k \in 1..Len(manual_players) :
                   manual_players[k].isRetired =>
                       \E object \in outputFile'.data :
                           /\ object.name = manual_players[k].name
                           /\ object.currentRanking = RETIRED_RANKING ]_vars

\* A retired player whose name the fetched list would match was merged and
\* written with RETIRED_RANKING, and no call was made.
C19_Witness ==
    /\ outputFile.state = "written"
    /\ manual_players[1].isRetired
    /\ api_rankings # <<>>
    /\ match_player_name(manual_players[1].name, api_rankings).kind = "match"
    /\ merged_players[1].currentRanking = RETIRED_RANKING
    /\ matchCalls = 0

\* C20: the merged ranking of a player that is not retired is the external
\* rank when the list was fetched and has a match for the player; otherwise
\* the player's prior currentRanking when it has one; otherwise a default.
C20_RankingFallsBackToPrior ==
    \A k \in 1..Len(merged_players) :
        ~manual_players[k].isRetired =>
            LET player == manual_players[k]
                found  == match_player_name(player.name, api_rankings)
                merged == merged_players[k].currentRanking
            IN  IF api_rankings # <<>> /\ found.kind = "match"
                THEN merged = api_rankings[found.index].rank
                ELSE IF player.currentRanking # <<>>
                THEN merged = player.currentRanking[1]
                ELSE merged \in {NOT_FOUND_RANKING, API_FAILED_RANKING}

\* C26: each time the number of movies processed in the run reaches a
\* multiple of BATCH_SIZE, save_progress is called in that iteration, and the
\* loop issues its next fetch only after the call has written the counts.
C26_SaveAtEveryBatchBoundary ==
    [][ /\ ( /\ Len(processed') > Len(processed)
             /\ Len(processed') % BATCH_SIZE = 0 )
           => pc' = "save_progress" /\ returnTo' = "sleep"
        /\ ( /\ pc \in {"save_progress", "save_remaining"}
             /\ returnTo = "sleep" )
           => /\ fetchCount' = fetchCount
              /\ pc' = "loop" =>
                    /\ progFile' = FileOf(ProgressRecord(processed, remaining))
                    /\ savesSinceFetch' = savesSinceFetch + 1 ]_vars

\* The save of a batch boundary has returned and the next fetch is due.
C26_Witness ==
    /\ pc = "loop"
    /\ idx < Len(todo)
    /\ Len(processed) = BATCH_SIZE
    /\ savesSinceFetch = 1
    /\ progFile = FileOf(ProgressRecord(processed, remaining))

\* C28: at the head of every iteration and when the run has ended, the lists
\* processed, failed and remaining are pairwise disjoint and hold, together,
\* exactly the movies the run started with.
C28_ThreeWayPartition ==
    pc = "loop" \/ (pc = "idle" /\ exit \in {"completed", "throttled"}) =>
        /\ Range(processed) \cap Range(failed) = {}
        /\ Range(processed) \cap Range(remaining) = {}
        /\ Range(failed) \cap Range(remaining) = {}
        /\ Range(processed) \cup Range(failed) \cup Range(remaining) = Range(todo)
        /\ Len(processed) + Len(failed) + Len(remaining) = Len(todo)

C28_Witness ==
    /\ pc = "idle"
    /\ exit = "completed"
    /\ processed # <<>>
    /\ failed # <<>>
    /\ Len(processed) + Len(failed) = Len(todo)

\* C29: when a run stops on a throttled fetch, REMAINING_FILE holds the
\* throttled movie followed by the movies not yet attempted, in the order of
\* the run's list, and the run that resumes from it has the throttled movie
\* first in its list.
C29_ThrottledCandidateFirst ==
    [][ /\ (exit # "throttled" /\ exit' = "throttled") =>
               remFile' = FileOf(SubSeq(todo, idx, Len(todo)))
        /\ (exit = "throttled" /\ pc' = "loop") =>
               /\ todo' = SubSeq(todo, idx, Len(todo))
               /\ todo'[1] = todo[idx]
               /\ idx' = 0 ]_vars

\* A resumed run whose first movie is one the run before had reached after
\* other movies.
C29_Witness ==
    /\ pc = "loop"
    /\ idx = 0
    /\ resumed
    /\ fetchCount = 0
    /\ Len(todo) >= 2
    /\ todo[1] > 1
    /\ remFile = FileOf(todo)

C30_DeterminedByLastRule ==
    /\ lastMatch.kind # "no_call"
    /\ Len(Tokens(lastMatch.name)) >= 2
    => LET firing == { k \in 1..Len(api_rankings) :
                         FallbackAsCoded[lastMatch.name, api_rankings[k].name] }
       IN  IF firing = {}
           THEN lastMatch.kind = "none"
           ELSE /\ lastMatch.kind = "match"
                /\ lastMatch.index \in firing
                /\ \A k \in firing : lastMatch.index <= k

\* The same for the calls that return.
ReturnsAsLastRuleAlone ==
    lastMatch.kind # "raise" => C30_DeterminedByLastRule

\* C25: a movie is appended to processed (and removed from remaining) only
\* when the output sink has accepted its record: the PATCH requests of the
\* iteration did not fail.
C25_ProcessedOnlyAfterSinkAccepted ==
    [][ Len(processed') > Len(processed) => result' = "ok" ]_vars

\* C24: a second invocation that starts while another one is running is
\* detected and ends at once: it calls no fetch and writes neither
\* PROGRESS_FILE nor REMAINING_FILE.
C24_SecondInvocationFailsFast ==
    [][ /\ (pc2 = "none" /\ pc2' # "none") => pc2' = "ended"
        /\ fetchCount2' = 0
        /\ wrote2' = 0 ]_vars


\* C27: when the API answers 429, api_request retries the same request after
\* its wait, however many times it was throttled before: the call neither
\* returns nor raises while the API keeps answering 429.
C27_ThrottledAlwaysRetried ==
    [][ Throttled => /\ mpc' = "request"
                     /\ stage' = stage
                     /\ qpos' = qpos
                     /\ depth' = depth + 1 ]_vars

\* C22: no failure to parse a numeric field leaves the job: a release date
\* whose first four characters are no number gives a song with the default
\* year, never a ValueError out of process_song.
C22_NoParseErrorPropagated == raised # "ValueError"


\* C21: every merged player, and every object written to players_data.js, has
\* every output field, whichever branch gave its currentRanking: a field the
\* player of manual_stats.json has holds the player's value, a field it lacks
\* holds the default of its player.get, and currentRanking is a number.
C21_EveryFieldCarried ==
    /\ \A k \in 1..Len(merged_players) :
          /\ DOMAIN merged_players[k] = OutputFields
          /\ merged_players[k].name = manual_players[k].name
          /\ merged_players[k].currentRanking \in Nat
          /\ \A key \in StatFields :
                merged_players[k][key] =
                    IF key \in DOMAIN manual_players[k].stats
                    THEN manual_players[k].stats[key]
                    ELSE Defaults[key]
    /\ outputFile.state = "written" =>
          \A k \in 1..Len(manual_players) :
             \E object \in outputFile.data :
                /\ DOMAIN object = OutputFields
                /\ object = merged_players[k]

\* The output was written for two players without stats, one retired and one
\* that the fetched list does not hold: both carry the defaults.
C21_Witness ==
    /\ outputFile.state = "written"
    /\ Len(manual_players) = 2
    /\ api_rankings # <<>>
    /\ manual_players[1].isRetired
    /\ ~manual_players[2].isRetired
    /\ manual_players[1].stats = << >>
    /\ DOMAIN manual_players[2].stats = {"nationality", "grandSlamTitles"}
    /\ merged_players[1].currentRanking = RETIRED_RANKING
    /\ merged_players[2].currentRanking = NOT_FOUND_RANKING
    /\ merged_players[1].nationality = "Unknown"
    /\ merged_players[2].nationality = "Spain"
    /\ merged_players[2].highestRanking = 100

====
